---- MODULE Spec2Model ----
(***************************************************************************)
(* Model of paddleocr_cli: the layered configuration resolver              *)
(* (internal/config/config.go), the OCR client (internal/ocr) and the      *)
(* command handlers runOCR / runConfigure (main.go).                       *)
(*                                                                         *)
(* Strings the code manipulates (URLs, tokens, markdown) are sequences of  *)
(* characters, so the empty string is << >>.  Directories are the chain    *)
(* 0 (filesystem root) .. MaxDepth, the parent of d being d-1.             *)
(***************************************************************************)
EXTENDS Integers, Sequences, FiniteSets, TLC

\* ---------------------------------------------------------------- bounds
MaxDepth == 2
MaxPages == 2
MaxSaves == 1

\* ------------------------------------------------------------- constants
LayoutParsingEndpoint == <<"/", "layout-parsing">>
HealthEndpoint == <<"/", "health">>
FileTypePDF == 0
FileTypeImage == 1
StatusOK == 200
PageSeparator == <<"\n", "\n", "-", "-", "-", "\n", "\n">>

Dirs == 0..MaxDepth
\* Getwd / UserHomeDir failed: the directory string is "" and equals no directory
NoDir == -1

\* ----------------------------------------------------------------- paths
\* filepath.Join(dir, ConfigFilename)
LocalPath(d) == <<"local", d>>
\* filepath.Join(home, UserConfigDir, UserConfigFile)
UserPath == <<"user", 0>>
\* the empty path ""
NoPath == <<"", NoDir>>
Paths == {LocalPath(d) : d \in Dirs} \cup {UserPath}

\* --------------------------------------------------------- configuration
Urls == {<< >>, <<"s", "/">>}
Tokens == {<< >>, <<"t">>}

\* config.New(): &Config{}
New == [isNil |-> FALSE, server_url |-> << >>, access_token |-> << >>]
\* a nil *Config
NilConfig == [isNil |-> TRUE, server_url |-> << >>, access_token |-> << >>]
Configs == [isNil : {FALSE}, server_url : Urls, access_token : Tokens]

\* (*Config).IsConfigured; only evaluated on non-nil receivers
IsConfigured(c) == c.server_url # << >> /\ c.access_token # << >>

\* ------------------------------------------------------------------ YAML
\* A YAML scalar as gopkg.in/yaml.v3 emits it: the empty string is written
\* double-quoted (""), any other string of the alphabet here in plain style.
\* A key missing from the document is style "missing".
Scalar(s) == [style |-> IF s = << >> THEN "dquoted" ELSE "plain", value |-> s]
MissingScalar == [style |-> "missing", value |-> << >>]
\* yaml.Marshal(config): paddleocr: {server_url: ..., access_token: ...}
Marshal(c) == [kind |-> "map", server_url |-> Scalar(c.server_url),
               access_token |-> Scalar(c.access_token)]
\* text that is not a YAML mapping of the expected shape
BadYaml == [kind |-> "bad", server_url |-> MissingScalar, access_token |-> MissingScalar]
\* a well-formed document with no paddleocr keys at all
EmptyYaml == [kind |-> "map", server_url |-> MissingScalar, access_token |-> MissingScalar]
\* yaml.Unmarshal(data, config) into config.New(): absent keys keep ""
UnmarshalOK(data) == data.kind = "map"
Unmarshal(data) == [isNil |-> FALSE,
                    server_url |-> IF data.server_url.style = "missing" THEN << >>
                                   ELSE data.server_url.value,
                    access_token |-> IF data.access_token.style = "missing" THEN << >>
                                     ELSE data.access_token.value]

\* ----------------------------------------------------------------- files
Modes == {"0600", "0644", "0200", "0400"}
CanRead(m) == m \in {"0600", "0644", "0400"}
CanWrite(m) == m \in {"0600", "0644", "0200"}
Absent == [exists |-> FALSE, data |-> BadYaml, mode |-> "0000"]
File(d, m) == [exists |-> TRUE, data |-> d, mode |-> m]
YamlData == {BadYaml, EmptyYaml} \cup {Marshal(c) : c \in Configs}

VARIABLES
  cwd,      \* os.Getwd(): a directory, or NoDir when it fails
  home,     \* os.UserHomeDir(): a directory, or NoDir when it fails
  claude,   \* per directory: what the entry ".claude" is ("none", "file", "dir")
  files,    \* per config path: the file stored there
  userDir,  \* whether the directory ~/.config/paddleocr_cli exists
  client,   \* the *Client built by NewClient (hasClient FALSE before)
  saves,    \* number of operations so far that wrote a config file
  op,       \* the last operation and its arguments
  ret       \* what the last operation returned / emitted

fsvars == <<cwd, home, claude, files, userDir>>
vars == <<cwd, home, claude, files, userDir, client, saves, op, ret>>

\* ------------------------------------------------- config.GetProjectRoot
Parent(d) == IF d = 0 THEN 0 ELSE d - 1

RECURSIVE WalkPastHome(_)
WalkPastHome(current) ==
  IF claude[current] = "dir" THEN current
  ELSE IF Parent(current) = current THEN NoDir
  ELSE WalkPastHome(Parent(current))

RECURSIVE Walk(_)
Walk(current) ==
  IF claude[current] = "dir" THEN current
  ELSE IF Parent(current) = current \/ current = home THEN NoDir
  ELSE Walk(Parent(current))

GetProjectRoot == IF cwd = NoDir THEN NoDir ELSE Walk(cwd)

\* ----------------------------------------------------- config.FindConfig
\* os.Stat(path) succeeds
StatOK(p) == files[p].exists

SearchPathsRootFirst ==
  (IF GetProjectRoot # NoDir THEN <<LocalPath(GetProjectRoot)>> ELSE << >>)
  \o (IF cwd # NoDir THEN <<LocalPath(cwd)>> ELSE << >>)
  \o (IF home # NoDir THEN <<UserPath>> ELSE << >>)
SearchPaths ==
  (IF cwd # NoDir THEN <<LocalPath(cwd)>> ELSE << >>)
  \o (IF GetProjectRoot # NoDir THEN <<LocalPath(GetProjectRoot)>> ELSE << >>)
  \o (IF home # NoDir THEN <<UserPath>> ELSE << >>)

RECURSIVE FirstExisting(_)
FirstExisting(paths) ==
  IF paths = << >> THEN NoPath
  ELSE IF StatOK(Head(paths)) THEN Head(paths)
  ELSE FirstExisting(Tail(paths))

FindConfig == FirstExisting(SearchPaths)

\* ----------------------------------------------------------- config.Load
\* os.ReadFile(path): the error, "nil" when the read succeeds
ReadFileErr(p) ==
  IF ~files[p].exists THEN "ErrNotExist"
  ELSE IF ~CanRead(files[p].mode) THEN "EACCES"
  ELSE "nil"

LoadFrom(configPath) ==
  IF configPath = NoPath THEN [cfg |-> New, err |-> "nil"]
  ELSE IF ReadFileErr(configPath) = "ErrNotExist" THEN [cfg |-> New, err |-> "nil"]
  ELSE IF ReadFileErr(configPath) # "nil"
    THEN [cfg |-> NilConfig, err |-> ReadFileErr(configPath)]
  ELSE IF ~UnmarshalOK(files[configPath].data)
    THEN [cfg |-> NilConfig, err |-> "yaml"]
  ELSE [cfg |-> Unmarshal(files[configPath].data), err |-> "nil"]

Load(configPath) ==
  LoadFrom(IF configPath = NoPath THEN FindConfig ELSE configPath)

\* ----------------------------------------------------------- config.Save
\* io.mkdir / io.create: whether the file system lets a missing directory /
\* a missing file be created (permissions of the parent, free space)
IOs == [mkdir : BOOLEAN, create : BOOLEAN]

\* the path Save writes: "" means the user config file
SaveTarget(configPath) == IF configPath = NoPath THEN UserPath ELSE configPath

\* os.MkdirAll(filepath.Dir(path), 0755): only the user config directory can be missing
MkdirAllOK(path, io) == path # UserPath \/ userDir \/ io.mkdir

\* os.WriteFile(path, data, 0600): O_WRONLY|O_CREATE|O_TRUNC, the mode is
\* used only when the file is created
WriteFileOK(path, io) ==
  IF files[path].exists THEN CanWrite(files[path].mode) ELSE io.create

WriteFile(path, data, perm) ==
  [files EXCEPT ![path] =
     IF files[path].exists THEN [@ EXCEPT !.data = data] ELSE File(data, perm)]

SaveErr(config, configPath, io) ==
  IF configPath = NoPath /\ home = NoDir THEN "home"
  ELSE IF ~MkdirAllOK(SaveTarget(configPath), io) THEN "mkdir"
  ELSE IF ~WriteFileOK(SaveTarget(configPath), io) THEN "write"
  ELSE "nil"

SaveFiles(config, configPath, io) ==
  IF SaveErr(config, configPath, io) = "nil"
  THEN WriteFile(SaveTarget(configPath), Marshal(config), "0600")
  ELSE files

SaveUserDir(config, configPath, io) ==
  userDir \/ (SaveTarget(configPath) = UserPath
              /\ SaveErr(config, configPath, io) \in {"nil", "write"})

\* ---------------------------------------------------- config.GetSavePath
Scopes == {"local", "project", "user"}

GetSavePathFallback(scope) ==
  IF scope = "local" \/ (scope = "project" /\ GetProjectRoot = NoDir)
    THEN IF cwd = NoDir THEN [path |-> NoPath, err |-> "getwd"]
         ELSE [path |-> LocalPath(cwd), err |-> "nil"]
  ELSE IF scope = "project" THEN [path |-> LocalPath(GetProjectRoot), err |-> "nil"]
  ELSE IF home = NoDir THEN [path |-> NoPath, err |-> "home"]
       ELSE [path |-> UserPath, err |-> "nil"]
GetSavePath(scope) ==
  IF scope = "local"
    THEN IF cwd = NoDir THEN [path |-> NoPath, err |-> "getwd"]
         ELSE [path |-> LocalPath(cwd), err |-> "nil"]
  ELSE IF scope = "project"
    THEN IF GetProjectRoot = NoDir THEN [path |-> NoPath, err |-> "ErrNotExist"]
         ELSE [path |-> LocalPath(GetProjectRoot), err |-> "nil"]
  ELSE IF home = NoDir THEN [path |-> NoPath, err |-> "home"]
       ELSE [path |-> UserPath, err |-> "nil"]

\* --------------------------------------------- config.GetConfigLocations
GetConfigLocations ==
  (IF cwd # NoDir
     THEN <<[description |-> "Current directory", path |-> LocalPath(cwd),
             exists |-> StatOK(LocalPath(cwd))]>>
     ELSE << >>)
  \o <<IF GetProjectRoot # NoDir
         THEN [description |-> "Project root", path |-> LocalPath(GetProjectRoot),
               exists |-> StatOK(LocalPath(GetProjectRoot))]
         ELSE [description |-> "Project root", path |-> NoPath, exists |-> FALSE]>>
  \o (IF home # NoDir
        THEN <<[description |-> "User config", path |-> UserPath,
                exists |-> StatOK(UserPath)]>>
        ELSE << >>)
\* =========================================================== OCR client
\* ------------------------------------------------------------ messages
\* fmt.Sprintf(format, args...): the format and its arguments (d: the %d
\* argument, s: the %s / %v argument, body: a response body printed with %s)
NoBody ==
  [json |-> FALSE, raw |-> "", logId |-> "", errorCode |-> 0, errorMsg |-> "",
   results |-> << >>]
Msg(format, d, str, body) == [fmt |-> format, d |-> d, s |-> str, body |-> body]
EmptyMsg == Msg("", 0, "", NoBody)
\* the rendered text is the empty string: every format used has literal text
IsEmptyMsg(m) == m.fmt = ""

\* ------------------------------------------------------ server behaviour
NullImages == [null |-> TRUE, map |-> {}]
EmptyImages == [null |-> FALSE, map |-> {}]
Entries ==
  {[text |-> <<"A">>, images |-> NullImages],
   [text |-> <<"B">>, images |-> EmptyImages],
   [text |-> <<"B">>, images |-> [null |-> FALSE, map |-> {<<"img", "data">>}]]}

RECURSIVE SeqsUpTo(_, _)
SeqsUpTo(S, n) ==
  IF n = 0 THEN {<< >>}
  ELSE SeqsUpTo(S, n - 1) \cup
       {Append(q, e) : q \in {r \in SeqsUpTo(S, n - 1) : Len(r) = n - 1}, e \in S}

\* response bodies: text that is not JSON, or an envelope
\* {logId, errorCode, errorMsg, result: {layoutParsingResults: [...]}}
RawBody == [NoBody EXCEPT !.raw = "boom"]
Envelope(logId, code, results) ==
  [json |-> TRUE, raw |-> "", logId |-> logId, errorCode |-> code,
   errorMsg |-> IF code = 0 THEN "" ELSE "bad", results |-> results]
Bodies ==
  {RawBody, Envelope("L1", 7, << >>)} \cup
  {Envelope(l, 0, r) : l \in {"", "L1"}, r \in SeqsUpTo(Entries, MaxPages)}
HealthBodies == {RawBody} \cup {Envelope("", c, << >>) : c \in {0, 7}}

Statuses == {200, 500}
StatusText(code) == IF code = 200 THEN "200 OK" ELSE "500 Internal Server Error"

\* what the network and the server do with one request: client.Do fails,
\* reading the body fails, or a status and a body arrive
Server(transport, status, body) ==
  [transport |-> transport, status |-> status, body |-> body]
ServersOver(B) ==
  {Server("doErr", 0, NoBody)} \cup
  {Server("readErr", st, NoBody) : st \in Statuses} \cup
  {Server("ok", st, b) : st \in Statuses, b \in B}

\* ----------------------------------------------------------- the client
NoClient == [hasClient |-> FALSE, config |-> NilConfig]
ClientOf(cfg) == [hasClient |-> TRUE, config |-> cfg]

\* NewClient(cfg): a nil cfg is replaced by config.Load(""), error dropped
NewClient(cfg) == ClientOf(IF cfg.isNil THEN Load(NoPath).cfg ELSE cfg)

\* strings.TrimRight(s, "/")
RECURSIVE TrimRight(_)
TrimRight(str) ==
  IF str # << >> /\ str[Len(str)] = "/" THEN TrimRight(SubSeq(str, 1, Len(str) - 1))
  ELSE str

\* (*Client).ServerURL; only evaluated on clients with a non-nil config
ServerURL(c) == TrimRight(c.config.server_url)

\* getFileType: strings.ToLower(filepath.Ext(filePath)) then the switch
Exts == {".pdf", ".PDF", ".png"}
ToLower(ext) == IF ext = ".PDF" THEN ".pdf" ELSE ext
getFileType(ext) == IF ToLower(ext) = ".pdf" THEN FileTypePDF ELSE FileTypeImage

\* OCROptions; Timeout in seconds, 0 meaning "use the client's 120 s"
OptionsWith(b) ==
  [UseDocOrientationClassify |-> b, UseDocUnwarping |-> b, UseChartRecognition |-> b,
   Timeout |-> IF b THEN 0 ELSE 30]
\* the calls tried: an extension with options
Calls == {[ext |-> e, opts |-> OptionsWith(e = ".PDF")] : e \in Exts}

\* the file at filePath: "absent" (os.Stat reports not-exist), "staterr"
\* (os.Stat fails otherwise), "unreadable" (os.ReadFile fails), "readable"
DocStates == {"absent", "staterr", "unreadable", "readable"}

Failed(msg, logId) ==
  [Success |-> FALSE, Pages |-> << >>, ErrorMessage |-> msg, LogID |-> logId]

\* the loop that builds the pages from response.Result.LayoutParsingResults
BuildPagesOneBased(results) ==
  [i \in 1..Len(results) |->
     [PageIndex |-> i,
      Markdown |-> results[i].text,
      Images |-> IF results[i].images.null THEN EmptyImages ELSE results[i].images]]
BuildPages(results) ==
  [i \in 1..Len(results) |->
     [PageIndex |-> i - 1,
      Markdown |-> results[i].text,
      Images |-> IF results[i].images.null THEN EmptyImages ELSE results[i].images]]

OCRRequest(c, ext, opts) ==
  [method |-> "POST",
   url |-> ServerURL(c) \o LayoutParsingEndpoint,
   auth |-> <<"token ">> \o c.config.access_token,
   fileType |-> getFileType(ext),
   flags |-> <<opts.UseDocOrientationClassify, opts.UseDocUnwarping,
               opts.UseChartRecognition>>,
   timeout |-> IF opts.Timeout > 0 THEN opts.Timeout ELSE 120]

Returned(result, http) == [panic |-> FALSE, result |-> result, http |-> http]
\* a nil-pointer dereference: the call does not return
Panicked == [panic |-> TRUE, result |-> Failed(EmptyMsg, ""), http |-> << >>]

\* OCRFile, the precondition checks: which one stops the call ("ok": none).
\* doc is the state of the file at filePath
PrecheckSwapped(c, doc) ==
  IF c.config.isNil THEN "panic"
  ELSE IF ~IsConfigured(c.config) THEN "unconfigured"
  ELSE IF doc = "absent" THEN "notfound"
  ELSE IF doc # "readable" THEN "readfail"
  ELSE "ok"
Precheck(c, doc) ==
  IF doc = "absent" THEN "notfound"
  ELSE IF c.config.isNil THEN "panic"
  ELSE IF ~IsConfigured(c.config) THEN "unconfigured"
  ELSE IF doc # "readable" THEN "readfail"
  ELSE "ok"

\* OCRFile, from the read of the response body to the result
HandleResponseParsingFirst(srv, http) ==
  IF srv.transport = "readErr"
    THEN Returned(Failed(Msg("Failed to read response: %v", 0, "read error", NoBody), ""), http)
  ELSE IF srv.body.json /\ srv.body.errorCode = 0
    THEN Returned([Success |-> TRUE, Pages |-> BuildPages(srv.body.results),
                   ErrorMessage |-> EmptyMsg, LogID |-> srv.body.logId], http)
  ELSE Returned(Failed(Msg("HTTP %d: %s\n%s", srv.status, StatusText(srv.status),
                           srv.body), ""), http)
HandleResponse(srv, http) ==
  IF srv.transport = "readErr"
    THEN Returned(Failed(Msg("Failed to read response: %v", 0, "read error", NoBody), ""), http)
  ELSE IF srv.status # StatusOK
    THEN Returned(Failed(Msg("HTTP %d: %s\n%s", srv.status, StatusText(srv.status),
                             srv.body), ""), http)
  ELSE IF ~srv.body.json
    THEN Returned(Failed(Msg("Invalid JSON response: %v", 0, "json error", NoBody), ""), http)
  ELSE IF srv.body.errorCode # 0
    THEN Returned(Failed(Msg("API error (%d): %s", srv.body.errorCode, srv.body.errorMsg,
                             NoBody), srv.body.logId), http)
  ELSE Returned([Success |-> TRUE, Pages |-> BuildPages(srv.body.results),
                 ErrorMessage |-> EmptyMsg, LogID |-> srv.body.logId], http)

\* (*Client).OCRFile: ext is the extension of filePath, srv what the network
\* and the server do if a request is sent
OCRFile(c, doc, ext, opts, srv) ==
  IF Precheck(c, doc) = "notfound"
    THEN Returned(Failed(Msg("File not found: %s", 0, "filePath", NoBody), ""), << >>)
  ELSE IF Precheck(c, doc) = "panic" THEN Panicked
  ELSE IF Precheck(c, doc) = "unconfigured"
    THEN Returned(Failed(Msg("PaddleOCR is not configured. Run 'paddleocr-cli configure' first.",
                             0, "", NoBody), ""), << >>)
  ELSE IF Precheck(c, doc) = "readfail"
    THEN Returned(Failed(Msg("Failed to read file: %v", 0, "read error", NoBody), ""), << >>)
  ELSE IF srv.transport = "doErr"
    THEN Returned(Failed(Msg("Request failed: %v", 0, "transport error", NoBody), ""),
                  <<OCRRequest(c, ext, opts)>>)
  ELSE HandleResponse(srv, <<OCRRequest(c, ext, opts)>>)

HealthRequest(c) ==
  [method |-> "GET", url |-> ServerURL(c) \o HealthEndpoint,
   auth |-> <<"token ">> \o c.config.access_token, timeout |-> 10]

Tested(ok, msg, http) == [panic |-> FALSE, ok |-> ok, message |-> msg, http |-> http]
TestPanicked == [panic |-> TRUE, ok |-> FALSE, message |-> EmptyMsg, http |-> << >>]

\* TestConnection, the guard on the access token
TokenMissingByURL(c) == c.config.server_url = << >>
TokenMissing(c) == c.config.access_token = << >>

\* (*Client).TestConnection
TestConnection(c, srv) ==
  IF c.config.isNil THEN TestPanicked
  ELSE IF TokenMissing(c)
    THEN Tested(FALSE, Msg("Access token not configured", 0, "", NoBody), << >>)
  ELSE LET http == <<HealthRequest(c)>> IN
    IF srv.transport = "doErr"
      THEN Tested(FALSE, Msg("Connection failed: %v", 0, "transport error", NoBody), http)
    ELSE IF srv.transport = "readErr"
      THEN Tested(FALSE, Msg("Failed to read response: %v", 0, "read error", NoBody), http)
    ELSE IF srv.status # StatusOK
      THEN Tested(FALSE, Msg("HTTP %d: %s", srv.status, StatusText(srv.status), NoBody), http)
    ELSE IF ~srv.body.json
      THEN Tested(FALSE, Msg("Invalid JSON response: %v", 0, "json error", NoBody), http)
    ELSE IF srv.body.errorCode = 0
      THEN Tested(TRUE, Msg("Connection successful", 0, "", NoBody), http)
    ELSE Tested(FALSE, Msg("Server error: %s", 0, srv.body.errorMsg, NoBody), http)

\* =================================================== result model, main.go
\* strings.Join(parts, sep)
RECURSIVE Join(_, _)
Join(parts, sep) ==
  IF parts = << >> THEN << >>
  ELSE IF Len(parts) = 1 THEN parts[1]
  ELSE parts[1] \o sep \o Join(Tail(parts), sep)

Markdowns(pages) == [i \in 1..Len(pages) |-> pages[i].Markdown]

\* (*DocumentOCRResult).FullMarkdown
FullMarkdownNonEmpty(result) ==
  Join(SelectSeq(Markdowns(result.Pages), LAMBDA m : m # << >>), PageSeparator)
FullMarkdown(result) == Join(Markdowns(result.Pages), PageSeparator)

\* one fmt.Fprintf / Fprintln / Println: the format and its argument
Out(format, arg) == [fmt |-> format, arg |-> arg]

\* what runOCR writes: json.MarshalIndent of {success, pages, log_id}, or markdown
JSONOutput(result) ==
  [kind |-> "json", pages |-> result.Pages, log_id |-> result.LogID, text |-> << >>]
MarkdownOutput(text) == [kind |-> "markdown", pages |-> << >>, log_id |-> "", text |-> text]
NoOutput == [kind |-> "none", pages |-> << >>, log_id |-> "", text |-> << >>]

\* the end of a command: the two streams, the exit code, the output file
\* written (-o), the requests sent, the Document Result obtained
Ended(stdout, stderr, exit, outFile, http, result) ==
  [stdout |-> stdout, stderr |-> stderr, exit |-> exit, outFile |-> outFile,
   http |-> http, result |-> result]
NoResult == Failed(EmptyMsg, "")

\* runOCR, the choice of the text to emit (a page in range or no --page)
FormatOutput(f, result) ==
  IF f.jsonOutput THEN JSONOutput(result)
  ELSE IF f.pageNum >= 0 THEN MarkdownOutput(result.Pages[f.pageNum + 1].Markdown)
  ELSE IF f.noSeparator THEN MarkdownOutput(Join(Markdowns(result.Pages), <<"\n", "\n">>))
  ELSE MarkdownOutput(FullMarkdown(result))

\* runOCR, after a successful OCRFile: format and write.  json.MarshalIndent
\* cannot fail on these values, its error branch is left out.
EmitOutput(f, r, progress) ==
  IF ~f.jsonOutput /\ f.pageNum >= 0 /\ ~(f.pageNum < Len(r.result.Pages))
    THEN Ended(<< >>,
               progress \o <<Out("Error: Page %d not found (document has %d pages)\n",
                                 <<f.pageNum, Len(r.result.Pages)>>)>>,
               1, NoOutput, r.http, r.result)
  ELSE IF f.outputFile
    THEN IF ~f.writeOK
           THEN Ended(<< >>,
                      progress \o <<Out("Error: Failed to write output: %v\n", "write error")>>,
                      1, NoOutput, r.http, r.result)
           ELSE Ended(<< >>,
                      progress \o (IF f.quiet THEN << >>
                                   ELSE <<Out("Output saved to: %s\n", "outputFile")>>),
                      0, FormatOutput(f, r.result), r.http, r.result)
  ELSE Ended(<<Out("%v\n", FormatOutput(f, r.result))>>, progress, 0, NoOutput,
             r.http, r.result)

\* runOCR(cmd, args): doc is the state of the file args[0], f the flags,
\* srv what the network and the server do if a request is sent
RunOCR(doc, f, srv) ==
  LET loaded == Load(f.configFile)
      c == NewClient(loaded.cfg)
      processing == IF f.quiet THEN << >> ELSE <<Out("Processing: %s\n", "filePath")>>
      r == OCRFile(c, doc, f.ext, f.opts, srv)
  IN
  IF doc = "absent"
    THEN Ended(<< >>, <<Out("Error: File not found: %s\n", "filePath")>>, 1, NoOutput,
               << >>, NoResult)
  ELSE IF loaded.err # "nil"
    THEN Ended(<< >>, <<Out("Error loading config: %v\n", loaded.err)>>, 1, NoOutput,
               << >>, NoResult)
  ELSE IF ~IsConfigured(c.config)
    THEN Ended(<< >>,
               <<Out("Error: PaddleOCR is not configured.\n", ""),
                 Out("Run 'paddleocr-cli configure' to set up credentials.\n", "")>>,
               1, NoOutput, << >>, NoResult)
  ELSE IF ~r.result.Success
    THEN Ended(<< >>, processing \o <<Out("Error: %s\n", r.result.ErrorMessage)>>, 1,
               NoOutput, r.http, r.result)
  ELSE EmitOutput(f, r,
         processing \o (IF f.quiet THEN << >>
                        ELSE <<Out("OCR completed: %d page(s)\n", Len(r.result.Pages))>>))

\* the end of configure: streams, exit code, the file system it leaves, the
\* requests sent, the path it saved to
Configured(stdout, stderr, exit, newFiles, newUserDir, http, savedTo) ==
  [stdout |-> stdout, stderr |-> stderr, exit |-> exit, files |-> newFiles,
   userDir |-> newUserDir, http |-> http, savedTo |-> savedTo]

\* runConfigure, --locations: a header, then two lines per location
ShowLocations ==
  <<Out("Configuration file search locations:\n\n", "")>>
  \o [i \in 1..Len(GetConfigLocations) |->
        Out("  %-12s %s\n             %s\n\n", GetConfigLocations[i])]

\* runConfigure, --show
ShowConfig(configPath, cfg) ==
  <<Out("Current configuration:\n\n", ""),
    IF configPath # NoPath THEN Out("  Config file: %s\n", configPath)
    ELSE Out("  Config file: (none found)\n", ""),
    Out("\n", ""),
    Out("  Server URL:   %s\n",
        IF cfg.server_url = << >> THEN <<"(not set)">> ELSE cfg.server_url),
    Out("  Access token: %s\n",
        IF Len(cfg.access_token) > 8
          THEN <<"***">> \o SubSeq(cfg.access_token, Len(cfg.access_token) - 7,
                                   Len(cfg.access_token))
          ELSE <<"(not set)">>)>>

\* runConfigure, --test on a loaded configuration
TestMode(cfg, srv) ==
  LET t == TestConnection(ClientOf(cfg), srv) IN
  IF ~IsConfigured(cfg)
    THEN Configured(<< >>,
                    <<Out("Error: server_url and access_token must be configured first.\n", ""),
                      Out("Run: paddleocr-cli configure --server-url URL --token TOKEN\n", "")>>,
                    1, files, userDir, << >>, NoPath)
  ELSE IF t.ok
    THEN Configured(<<Out("Testing connection to PaddleOCR server...\n", ""),
                      Out("  [OK] %s\n", t.message)>>,
                    << >>, 0, files, userDir, t.http, NoPath)
  ELSE Configured(<<Out("Testing connection to PaddleOCR server...\n", ""),
                    Out("  [FAILED] %s\n", t.message)>>,
                  << >>, 1, files, userDir, t.http, NoPath)

\* the usage text: ten Fprintln calls
UsageLines == 10

\* runConfigure, the update of the configuration and its save
MergeKeepExisting(cfg, f) ==
  [cfg EXCEPT !.access_token = IF @ = << >> THEN f.token ELSE @,
              !.server_url = IF @ = << >> THEN f.serverURL ELSE @]
Merge(cfg, f) ==
  [cfg EXCEPT !.access_token = IF f.token # << >> THEN f.token ELSE @,
              !.server_url = IF f.serverURL # << >> THEN f.serverURL ELSE @]

UpdateMode(cfg, f, io) ==
  LET merged == Merge(cfg, f)
      sp == GetSavePath(f.scope)
      e == SaveErr(merged, sp.path, io)
  IN
  IF f.token = << >> /\ f.serverURL = << >>
    THEN Configured(<< >>, [i \in 1..UsageLines |-> Out("usage", i)], 1, files, userDir,
                    << >>, NoPath)
  ELSE IF sp.err # "nil"
    THEN Configured(<< >>,
                    <<IF f.scope = "project"
                        THEN Out("Error: No project root found (no .claude/ directory in parent paths)\n", "")
                        ELSE Out("Error: %v\n", sp.err)>>,
                    1, files, userDir, << >>, NoPath)
  ELSE IF e = "mkdir"
    THEN Configured(<< >>, <<Out("Error: Failed to create directory: %v\n", e)>>, 1,
                    files, userDir, << >>, NoPath)
  ELSE IF e # "nil"
    THEN Configured(<< >>, <<Out("Error: Failed to save config: %v\n", e)>>, 1,
                    files, SaveUserDir(merged, sp.path, io), << >>, NoPath)
  ELSE Configured(<<Out("Configuration saved to: %s\n", sp.path)>>, << >>, 0,
                  SaveFiles(merged, sp.path, io), SaveUserDir(merged, sp.path, io),
                  << >>, sp.path)

\* runConfigure(cmd, args)
RunConfigure(f, srv, io) ==
  LET loaded == Load(FindConfig) IN
  IF f.locations
    THEN Configured(ShowLocations, << >>, 0, files, userDir, << >>, NoPath)
  ELSE IF loaded.err # "nil"
    THEN Configured(<< >>, <<Out("Error loading config: %v\n", loaded.err)>>, 1, files,
                    userDir, << >>, NoPath)
  ELSE IF f.showConfig
    THEN Configured(ShowConfig(FindConfig, loaded.cfg), << >>, 0, files, userDir, << >>,
                    NoPath)
  ELSE IF f.testConn THEN TestMode(loaded.cfg, srv)
  ELSE UpdateMode(loaded.cfg, f, io)

\* ============================================================ operations
\* no operation has run, or its result is gone
NoOp == [name |-> "none"]
\* paths a caller can name: "", the user config file, the config files of
\* the current directory and of its ancestors
ExplicitPaths == {NoPath} \cup {p \in Paths : p = UserPath \/ p[2] <= cwd}

FindConfigOp ==
  /\ op' = [name |-> "FindConfig"]
  /\ ret' = [path |-> FindConfig]
  /\ UNCHANGED <<fsvars, client, saves>>

GetProjectRootOp ==
  /\ op' = [name |-> "GetProjectRoot"]
  /\ ret' = [root |-> GetProjectRoot]
  /\ UNCHANGED <<fsvars, client, saves>>

GetSavePathOp(scope) ==
  /\ op' = [name |-> "GetSavePath", scope |-> scope]
  /\ ret' = GetSavePath(scope)
  /\ UNCHANGED <<fsvars, client, saves>>

GetConfigLocationsOp ==
  /\ op' = [name |-> "GetConfigLocations"]
  /\ ret' = [locations |-> GetConfigLocations]
  /\ UNCHANGED <<fsvars, client, saves>>

LoadOp(configPath) ==
  /\ op' = [name |-> "Load", path |-> configPath, found |-> FindConfig]
  /\ ret' = Load(configPath)
  /\ UNCHANGED <<fsvars, client, saves>>

SaveOp(config, configPath, io) ==
  /\ saves < MaxSaves
  /\ saves' = saves + 1
  /\ files' = SaveFiles(config, configPath, io)
  /\ userDir' = SaveUserDir(config, configPath, io)
  /\ op' = [name |-> "Save", config |-> config, path |-> configPath,
            target |-> SaveTarget(configPath), before |-> files[SaveTarget(configPath)]]
  /\ ret' = [err |-> SaveErr(config, configPath, io)]
  /\ UNCHANGED <<cwd, home, claude, client>>

NewClientOp(cfg) ==
  /\ client' = NewClient(cfg)
  /\ op' = [name |-> "NewClient", cfg |-> cfg]
  /\ ret' = [loaded |-> Load(NoPath)]
  /\ UNCHANGED <<fsvars, saves>>

\* doc: the state of the file at filePath when the call runs
OCRFileOp(doc, ext, opts, srv) ==
  /\ client.hasClient
  /\ op' = [name |-> "OCRFile", doc |-> doc, ext |-> ext, opts |-> opts, srv |-> srv]
  /\ ret' = OCRFile(client, doc, ext, opts, srv)
  /\ UNCHANGED <<fsvars, client, saves>>

TestConnectionOp(srv) ==
  /\ client.hasClient
  /\ op' = [name |-> "TestConnection", srv |-> srv]
  /\ ret' = TestConnection(client, srv)
  /\ UNCHANGED <<fsvars, client, saves>>

\* the markdown of a page: empty, one character, or text ending in a newline
MarkdownTexts == {<< >>, <<"A">>, <<"B", "\n">>}
\* a DocumentOCRResult: failed without pages, or a success with up to
\* MaxPages pages
DocumentResults ==
  {Failed(Msg("File not found: %s", 0, "", NoBody), "")} \cup
  {[Success |-> TRUE,
    Pages |-> [i \in 1..Len(texts) |->
                 [PageIndex |-> i - 1, Markdown |-> texts[i], Images |-> EmptyImages]],
    ErrorMessage |-> EmptyMsg, LogID |-> ""] : texts \in SeqsUpTo(MarkdownTexts, MaxPages)}

\* result.FullMarkdown(): the text returned, and the result as the call
\* leaves it (the receiver is only read); again: the call repeats the
\* previous one on the same result, whose text was prev
FullMarkdownOp(result) ==
  /\ LET again == op.name = "FullMarkdown" /\ ret.result = result
     IN op' = [name |-> "FullMarkdown", result |-> result, again |-> again,
               prev |-> IF again THEN ret.text ELSE << >>]
  /\ ret' = [text |-> FullMarkdown(result), result |-> result]
  /\ UNCHANGED <<fsvars, client, saves>>

\* the flags of the root command tried; -o with a write that succeeds or fails
OCRVariants ==
  {[quiet |-> FALSE, outputFile |-> FALSE, writeOK |-> TRUE],
   [quiet |-> TRUE, outputFile |-> FALSE, writeOK |-> TRUE],
   [quiet |-> FALSE, outputFile |-> TRUE, writeOK |-> TRUE],
   [quiet |-> TRUE, outputFile |-> TRUE, writeOK |-> FALSE]}
OCRFlags ==
  {[configFile |-> cf, quiet |-> v.quiet, jsonOutput |-> j, pageNum |-> n,
    noSeparator |-> v.quiet, outputFile |-> v.outputFile, writeOK |-> v.writeOK,
    ext |-> ".pdf", opts |-> [OptionsWith(FALSE) EXCEPT !.Timeout = 120]] :
     cf \in {NoPath, UserPath}, v \in OCRVariants, j \in BOOLEAN, n \in -1..MaxPages}

\* a document of n pages as the server returns it
DocEntry(i) ==
  IF i % 2 = 1 THEN [text |-> <<"A">>, images |-> NullImages]
  ELSE [text |-> <<"B">>, images |-> EmptyImages]
CLIServers ==
  {Server("doErr", 0, NoBody), Server("ok", 500, RawBody),
   Server("ok", 200, Envelope("L1", 7, << >>))} \cup
  {Server("ok", 200, Envelope("L1", 0, [i \in 1..n |-> DocEntry(i)])) : n \in 0..MaxPages}
HealthServers ==
  {Server("doErr", 0, NoBody), Server("ok", 500, RawBody),
   Server("ok", 200, Envelope("", 7, << >>)), Server("ok", 200, Envelope("", 0, << >>))}

\* the flags of configure tried: a mode flag alone, or an update
ConfigureFlags ==
  {f \in [locations : BOOLEAN, showConfig : BOOLEAN, testConn : BOOLEAN,
          token : Tokens, serverURL : Urls, scope : Scopes] :
     (f.locations \/ f.showConfig \/ f.testConn) =>
       (f.token = << >> /\ f.serverURL = << >> /\ f.scope = "user")}
IsUpdate(f) ==
  ~f.locations /\ ~f.showConfig /\ ~f.testConn /\ (f.token # << >> \/ f.serverURL # << >>)

\* one invocation of the root command with a file argument
RunOCROp(doc, f, srv) ==
  /\ op.name = "none"
  /\ op' = [name |-> "runOCR", doc |-> doc, flags |-> f, srv |-> srv]
  /\ ret' = RunOCR(doc, f, srv)
  /\ UNCHANGED <<fsvars, client, saves>>

\* config.Load("") by the process that runs after a configure invocation,
\* with the working directory and home directory unchanged
LoadAfterConfigureOp ==
  /\ op.name = "runConfigure"
  /\ IsUpdate(op.flags)
  /\ op' = [name |-> "Load", path |-> NoPath, found |-> FindConfig,
            after |-> [flags |-> op.flags, exit |-> ret.exit, savedTo |-> ret.savedTo]]
  /\ ret' = Load(NoPath)
  /\ UNCHANGED <<fsvars, client, saves>>

\* one invocation of the configure subcommand
RunConfigureOp(f, srv, io) ==
  /\ op.name = "none"
  /\ IsUpdate(f) => saves < MaxSaves
  /\ saves' = IF IsUpdate(f) THEN saves + 1 ELSE saves
  /\ op' = [name |-> "runConfigure", flags |-> f, srv |-> srv, io |-> io,
            found |-> FindConfig, root |-> GetProjectRoot,
            before |-> files, dirBefore |-> userDir]
  /\ ret' = RunConfigure(f, srv, io)
  /\ files' = RunConfigure(f, srv, io).files
  /\ userDir' = RunConfigure(f, srv, io).userDir
  /\ UNCHANGED <<cwd, home, claude, client>>

\* main returns or os.Exit: the process is gone, the shell takes the next command
ProcessExit ==
  /\ op.name \in {"runOCR", "runConfigure"}
  /\ op' = NoOp
  /\ ret' = NoOp
  /\ UNCHANGED <<fsvars, client, saves>>

\* ======================================================== specifications
FullConfig == [isNil |-> FALSE, server_url |-> <<"s", "/">>, access_token |-> <<"t">>]
GoodFile == File(Marshal(FullConfig), "0600")
\* a config file written earlier for another server
OtherConfig == [isNil |-> FALSE, server_url |-> <<"o">>, access_token |-> <<"k">>]
OtherFile == File(Marshal(OtherConfig), "0600")
AllFiles == {Absent} \cup {File(d, m) : d \in YamlData, m \in Modes}

InitCommon ==
  /\ client = NoClient
  /\ saves = 0
  /\ op = NoOp
  /\ ret = NoOp

\* the user config file needs its directory
UserDirOK == files[UserPath].exists => userDir

\* Spec: Load and Save over every file content and permission, in a root
\* working directory that is also the home directory
Init ==
  /\ InitCommon
  /\ cwd = 0 /\ home = 0
  /\ claude = [d \in Dirs |-> "none"]
  /\ files \in [Paths -> AllFiles]
  /\ \A d \in Dirs : d > cwd => ~files[LocalPath(d)].exists
  /\ userDir \in BOOLEAN
  /\ UserDirOK

Next ==
  \/ FindConfigOp
  \/ \E p \in ExplicitPaths : LoadOp(p)
  \/ \E c \in Configs, p \in ExplicitPaths, io \in IOs : SaveOp(c, p, io)

Spec == Init /\ [][Next]_vars

\* SpecFind: the search for the project root and the config file, over every
\* placement of cwd, home, markers and config files
InitFind ==
  /\ InitCommon
  /\ cwd \in Dirs \cup {NoDir}
  /\ home \in Dirs \cup {NoDir}
  /\ claude \in [Dirs -> {"none", "file", "dir"}]
  /\ files \in [Paths -> {Absent, GoodFile}]
  /\ \A d \in Dirs : d > cwd => claude[d] = "none" /\ ~files[LocalPath(d)].exists
  /\ userDir \in BOOLEAN
  /\ UserDirOK

NextFind ==
  \/ FindConfigOp
  \/ GetProjectRootOp
  \/ GetConfigLocationsOp
  \/ \E sc \in Scopes : GetSavePathOp(sc)
  \/ LoadOp(NoPath)

SpecFind == InitFind /\ [][NextFind]_vars

\* SpecClient: the OCR client against every document state and server
\* behaviour; the config file of the working directory feeds NewClient(nil)
InitClient ==
  /\ InitCommon
  /\ cwd = 0 /\ home = NoDir
  /\ claude = [d \in Dirs |-> "none"]
  /\ files \in [Paths -> {Absent, GoodFile, File(BadYaml, "0644"),
                          File(Marshal(FullConfig), "0200")}]
  /\ \A p \in Paths : p # LocalPath(0) => ~files[p].exists
  /\ userDir = FALSE

NextClient ==
  \/ \E cfg \in Configs \cup {NilConfig} : NewClientOp(cfg)
  \/ \E doc \in DocStates, call \in Calls, srv \in ServersOver(Bodies) :
       /\ doc # "readable" => (call.ext = ".pdf" /\ srv.transport = "doErr")
       /\ OCRFileOp(doc, call.ext, call.opts, srv)
  \/ \E srv \in ServersOver(HealthBodies) : TestConnectionOp(srv)
  \/ \E result \in DocumentResults : FullMarkdownOp(result)

SpecClient == InitClient /\ [][NextClient]_vars

\* SpecConfigure: invocations of configure, one process at a time, over
\* every placement of cwd, home and markers; config files at the paths the
\* command can reach (cwd, project root, user)
InitConfigure ==
  /\ InitCommon
  /\ cwd \in Dirs \cup {NoDir}
  /\ home \in Dirs \cup {NoDir}
  /\ claude \in [Dirs -> {"none", "dir"}]
  /\ files \in [Paths -> {Absent, GoodFile, OtherFile, File(BadYaml, "0400")}]
  /\ \A d \in Dirs : d > cwd => claude[d] = "none"
  /\ \A d \in Dirs : (d # cwd /\ d # GetProjectRoot) => ~files[LocalPath(d)].exists
  /\ userDir \in BOOLEAN
  /\ UserDirOK

ConfigureStep ==
  \E f \in ConfigureFlags, srv \in HealthServers, io \in IOs :
    /\ ~f.testConn => srv.transport = "doErr"
    /\ ~IsUpdate(f) => (io.mkdir /\ io.create)
    /\ RunConfigureOp(f, srv, io)

NextConfigure ==
  \/ ConfigureStep
  \/ ProcessExit
  \/ \E sc \in Scopes : GetSavePathOp(sc)
  \/ LoadAfterConfigureOp

SpecConfigure == InitConfigure /\ [][NextConfigure]_vars

\* SpecCLI: invocations of both commands from the root directory (or with
\* no working directory), every document state and server behaviour
InitCLI ==
  /\ InitConfigure
  /\ cwd <= 0
  /\ \A p \in Paths : files[p] # OtherFile

OCRStep ==
  \E doc \in DocStates, f \in OCRFlags, srv \in CLIServers :
    /\ doc # "readable" =>
         (f.pageNum = -1 /\ ~f.jsonOutput /\ ~f.quiet /\ ~f.outputFile
          /\ f.configFile = NoPath /\ srv.transport = "doErr")
    /\ RunOCROp(doc, f, srv)

NextCLI ==
  \/ OCRStep
  \/ ConfigureStep
  \/ ProcessExit

SpecCLI == InitCLI /\ [][NextCLI]_vars

\* ================================================================ claims
\* C1: OCRFile returns a Document Result instead of raising, for every
\* client however built, and the result is well formed: a failure has no
\* pages and a non-empty error message, a success has no error message.
C1_NeverRaises ==
  op.name = "OCRFile" =>
    /\ ~ret.panic
    /\ ~ret.result.Success =>
         ret.result.Pages = << >> /\ ~IsEmptyMsg(ret.result.ErrorMessage)
    /\ ret.result.Success => IsEmptyMsg(ret.result.ErrorMessage)

\* C2: OCRFile checks file existence, then the configuration, then the
\* read of the file; the failed result reports the first check that fails,
\* and no HTTP request is issued when one of them fails.
C2_PreconditionOrder ==
  op.name = "OCRFile" =>
    /\ (op.doc # "readable" \/ client.config.isNil \/ ~IsConfigured(client.config))
         => ret.http = << >>
    /\ ~ret.panic =>
         /\ op.doc = "absent" => ret.result.ErrorMessage.fmt = "File not found: %s"
         /\ (op.doc # "absent" /\ ~IsConfigured(client.config)) =>
              ret.result.ErrorMessage.fmt =
                "PaddleOCR is not configured. Run 'paddleocr-cli configure' first."
         /\ (op.doc \in {"staterr", "unreadable"} /\ IsConfigured(client.config)) =>
              ret.result.ErrorMessage.fmt = "Failed to read file: %v"

\* a missing file on an unconfigured client was reported as a missing file
C2_Witness ==
  /\ op.name = "OCRFile"
  /\ op.doc = "absent"
  /\ ~client.config.isNil /\ ~IsConfigured(client.config)
  /\ ~ret.panic /\ ~ret.result.Success
  /\ ret.result.ErrorMessage.fmt = "File not found: %s"

\* the server answered the request of the last OCRFile call with a status
\* and a body that was read in full
Answered ==
  /\ op.name = "OCRFile"
  /\ ret.http # << >>
  /\ op.srv.transport = "ok"

\* C3: on HTTP 200 with errorCode 0 the result is a success with one page
\* per entry of layoutParsingResults, in the server's order: page i (0-based)
\* has page_index i, the entry's markdown text, and the entry's images or an
\* empty non-null mapping when images is null.
C3_PagesMirrorServer ==
  (Answered /\ op.srv.status = 200 /\ op.srv.body.json /\ op.srv.body.errorCode = 0) =>
    /\ ret.result.Success
    /\ Len(ret.result.Pages) = Len(op.srv.body.results)
    /\ \A i \in 1..Len(op.srv.body.results) :
         /\ ret.result.Pages[i].PageIndex = i - 1
         /\ ret.result.Pages[i].Markdown = op.srv.body.results[i].text
         /\ ~ret.result.Pages[i].Images.null
         /\ ret.result.Pages[i].Images.map =
              (IF op.srv.body.results[i].images.null THEN {}
               ELSE op.srv.body.results[i].images.map)

\* a two-page answer with different texts, one entry without images
C3_Witness ==
  /\ Answered /\ op.srv.status = 200 /\ op.srv.body.json /\ op.srv.body.errorCode = 0
  /\ Len(op.srv.body.results) = 2
  /\ op.srv.body.results[1].text # op.srv.body.results[2].text
  /\ op.srv.body.results[1].images.null
  /\ op.srv.body.results[2].images.map # {}
  /\ ret.result.Success /\ Len(ret.result.Pages) = 2

\* C4: a status other than 200 gives a failure whose message holds the
\* status code and the raw body; the body is not read as an envelope, so no
\* pages come back even from a well-formed errorCode-0 envelope.
C4_Non200NotParsed ==
  (Answered /\ op.srv.status # 200) =>
    /\ ~ret.result.Success
    /\ ret.result.Pages = << >>
    /\ ret.result.ErrorMessage.fmt = "HTTP %d: %s\n%s"
    /\ ret.result.ErrorMessage.d = op.srv.status
    /\ ret.result.ErrorMessage.body = op.srv.body

\* a 500 whose body is a well-formed envelope with errorCode 0 and pages
C4_Witness ==
  /\ Answered /\ op.srv.status = 500
  /\ op.srv.body.json /\ op.srv.body.errorCode = 0 /\ Len(op.srv.body.results) > 0
  /\ ~ret.result.Success /\ ret.result.Pages = << >>

\* the tiers of the config search that hold a file
CwdTier == cwd # NoDir /\ files[LocalPath(cwd)].exists
RootTier == GetProjectRoot # NoDir /\ files[LocalPath(GetProjectRoot)].exists
UserTier == home # NoDir /\ files[UserPath].exists

\* C5: FindConfig returns the first existing path in the order cwd, project
\* root (when there is one), user config; none exactly when no tier has a file.
C5_FindConfigPriority ==
  op.name = "FindConfig" =>
    /\ CwdTier => ret.path = LocalPath(cwd)
    /\ (~CwdTier /\ RootTier) => ret.path = LocalPath(GetProjectRoot)
    /\ (~CwdTier /\ ~RootTier /\ UserTier) => ret.path = UserPath
    /\ (ret.path = NoPath) <=> (~CwdTier /\ ~RootTier /\ ~UserTier)

\* files at all three tiers, the project root above cwd: cwd's file wins
C5_Witness ==
  /\ op.name = "FindConfig"
  /\ CwdTier /\ RootTier /\ UserTier
  /\ GetProjectRoot # cwd
  /\ ret.path = LocalPath(cwd)

\* C6: Load of an explicit path that does not exist fails with a NotFound
\* error; the empty Configuration without error is the outcome of a search
\* that found no file.
C6_ExplicitMissingFails ==
  op.name = "Load" =>
    /\ (op.path # NoPath /\ ~files[op.path].exists) =>
         ret.err = "ErrNotExist" /\ ret.cfg.isNil
    /\ (op.path = NoPath /\ op.found = NoPath) => ret.err = "nil" /\ ret.cfg = New

\* C7: after a successful Save(config, p), Load(p) returns a Configuration
\* equal to config, whatever was at p before.
C7_RoundTrip ==
  (op.name = "Save" /\ op.path # NoPath /\ ret.err = "nil") =>
    Load(op.path) = [cfg |-> op.config, err |-> "nil"]

\* C8: after a successful Save the file has owner-only read/write
\* permission, whatever was at the target before.
C8_OwnerOnly ==
  (op.name = "Save" /\ ret.err = "nil") => files[op.target].mode = "0600"

\* C9: TestConnection on a client with an empty access token returns
\* (false, "Access token not configured") without a network call; a call
\* goes to {server_url}/health only when the token is non-empty.
C9_NoTokenNoCall ==
  op.name = "TestConnection" =>
    /\ (client.config.isNil \/ client.config.access_token = << >>) => ret.http = << >>
    /\ (~client.config.isNil /\ client.config.access_token = << >>) =>
         /\ ~ret.panic /\ ~ret.ok
         /\ ret.message = Msg("Access token not configured", 0, "", NoBody)
    /\ ret.http # << >> =>
         /\ client.config.access_token # << >>
         /\ Len(ret.http) = 1
         /\ ret.http[1].method = "GET"
         /\ ret.http[1].url = TrimRight(client.config.server_url) \o HealthEndpoint

\* a client with a server URL and no token was probed
C9_Witness ==
  /\ op.name = "TestConnection"
  /\ ~client.config.isNil
  /\ client.config.access_token = << >> /\ client.config.server_url # << >>
  /\ ~ret.ok /\ ret.http = << >>

\* C10: a CLI invocation that ends in failure has printed its error to
\* stderr, exits non-zero, and has written nothing to stdout.
C10_FailureOnlyOnStderr ==
  op.name \in {"runOCR", "runConfigure"} =>
    /\ ret.exit \in {0, 1}
    /\ ret.exit # 0 => ret.stderr # << >> /\ ret.stdout = << >>

\* C11: for a successful Document Result of n pages and --page N, whatever
\* the other output flags: N >= n is reported as out of range (a message
\* that is no transport or server error), exits non-zero and emits no page
\* content; 0 <= N < n emits exactly the markdown of page N.
C11_PageSelection ==
  (op.name = "runOCR" /\ ret.result.Success /\ op.flags.pageNum >= 0) =>
    IF op.flags.pageNum >= Len(ret.result.Pages)
    THEN /\ ret.exit # 0
         /\ ret.stdout = << >> /\ ret.outFile = NoOutput
         /\ ret.stderr # << >>
         /\ ret.stderr[Len(ret.stderr)].fmt =
              "Error: Page %d not found (document has %d pages)\n"
    ELSE (ret.exit = 0) =>
           LET page == MarkdownOutput(ret.result.Pages[op.flags.pageNum + 1].Markdown)
           IN IF op.flags.outputFile THEN ret.outFile = page /\ ret.stdout = << >>
              ELSE ret.stdout = <<Out("%v\n", page)>> /\ ret.outFile = NoOutput

\* the last command was configure asked to save (no --locations, --show,
\* --test) with scope project, and there was no project root
ProjectScopeNoRoot ==
  /\ op.name = "runConfigure"
  /\ ~op.flags.locations /\ ~op.flags.showConfig /\ ~op.flags.testConn
  /\ op.flags.scope = "project"
  /\ op.root = NoDir

\* C12: GetSavePath("project") fails with a NotFound error exactly when
\* there is no project root and returns root + filename otherwise; configure
\* with scope project and no project root exits with failure, creates no
\* directory and creates or modifies no config file.
C12_ProjectScopeNeedsRoot ==
  /\ (op.name = "GetSavePath" /\ op.scope = "project") =>
       /\ (ret.err = "ErrNotExist") <=> (GetProjectRoot = NoDir)
       /\ GetProjectRoot = NoDir => ret.path = NoPath
       /\ GetProjectRoot # NoDir =>
            ret = [path |-> LocalPath(GetProjectRoot), err |-> "nil"]
  /\ ProjectScopeNoRoot =>
       /\ ret.exit = 1
       /\ ret.savedTo = NoPath
       /\ files = op.before
       /\ userDir = op.dirBefore

\* configure --server-url U --token T -s project reached the save path with
\* no project root, in a directory where a save would have been possible
C12_Witness ==
  /\ ProjectScopeNoRoot
  /\ cwd # NoDir
  /\ op.flags.token # << >> /\ op.flags.serverURL # << >>
  /\ op.io.mkdir /\ op.io.create
  /\ ret.stderr =
       <<Out("Error: No project root found (no .claude/ directory in parent paths)\n", "")>>
  /\ ret.exit = 1 /\ files = op.before

\* the directories the search looks at: from cwd up to home when home is cwd
\* or an ancestor of it, up to the filesystem root otherwise
Visited == IF cwd = NoDir THEN {} ELSE (IF home \in 0..cwd THEN home ELSE 0)..cwd
Marked == {d \in Visited : claude[d] = "dir"}

\* C13: the project-root search ends and returns the nearest ancestor of
\* cwd (cwd included) that holds a directory .claude, among those visited
\* before the walk stops at home or at the filesystem root; no root when none
\* of them has the marker; with cwd at or below home, never a directory
\* strictly above home.
C13_NearestMarkedAncestor ==
  op.name = "GetProjectRoot" =>
    /\ Marked = {} => ret.root = NoDir
    /\ Marked # {} => ret.root \in Marked /\ \A d \in Marked : d <= ret.root
    /\ (home \in 0..cwd /\ ret.root # NoDir) => ret.root >= home

\* cwd two levels below a marked directory, home in between, no marker at
\* home or cwd (one of them holds a file named .claude): no root
C13_Witness ==
  /\ op.name = "GetProjectRoot"
  /\ cwd = 2 /\ home = 1
  /\ claude[0] = "dir" /\ claude[1] = "file" /\ claude[2] = "none"
  /\ ret.root = NoDir

\* the offset in the joined text at which page i (1-based) starts
RECURSIVE PageOffset(_, _)
PageOffset(pages, i) ==
  IF i = 1 THEN 0
  ELSE PageOffset(pages, i - 1) + Len(pages[i - 1].Markdown) + Len(PageSeparator)

\* C14: FullMarkdown returns the pages' markdown texts in sequence order
\* with the separator "\n\n---\n\n" between consecutive pages and nowhere
\* else (n-1 separators for n >= 1 pages, the empty string for no pages); the
\* result is left as it was, and a second call on the same result returns the
\* same text.
C14_FullMarkdownJoin ==
  op.name = "FullMarkdown" =>
    LET pages == op.result.Pages
        n == Len(pages)
        text == ret.text
    IN /\ n = 0 => text = << >>
       /\ n >= 1 =>
            /\ Len(text) = PageOffset(pages, n) + Len(pages[n].Markdown)
            /\ \A i \in 1..n :
                 LET from == PageOffset(pages, i)
                     m == pages[i].Markdown
                 IN /\ SubSeq(text, from + 1, from + Len(m)) = m
                    /\ i < n =>
                         SubSeq(text, from + Len(m) + 1,
                                from + Len(m) + Len(PageSeparator)) = PageSeparator
       /\ PageSeparator = <<"\n", "\n", "-", "-", "-", "\n", "\n">>
       /\ ret.result = op.result
       /\ op.again => text = op.prev

\* the second call on a two-page result whose first page is empty
C14_Witness ==
  /\ op.name = "FullMarkdown" /\ op.again
  /\ Len(op.result.Pages) = 2
  /\ op.result.Pages[1].Markdown = << >>
  /\ op.result.Pages[2].Markdown = <<"B", "\n">>
  /\ ret.text = PageSeparator \o <<"B", "\n">>
  /\ op.prev = ret.text

\* a default load that follows a successful configure --server-url U --token T
AfterConfigure ==
  /\ op.name = "Load" /\ "after" \in DOMAIN op
  /\ op.after.flags.serverURL # << >> /\ op.after.flags.token # << >>
  /\ op.after.exit = 0

\* the values given to configure
Given == [isNil |-> FALSE, server_url |-> op.after.flags.serverURL,
          access_token |-> op.after.flags.token]

\* the existing config file of highest priority among the tiers above the
\* path written (NoPath: there is none)
Shadowing ==
  LET saved == op.after.savedTo IN
  IF CwdTier /\ LocalPath(cwd) # saved THEN LocalPath(cwd)
  ELSE IF saved = UserPath /\ RootTier THEN LocalPath(GetProjectRoot)
  ELSE NoPath

\* C15 as stated: the load after a successful configure returns {U, T} if
\* and only if no config file exists at a tier of higher priority than the one
\* written.
C15_LoadedIffNotShadowed ==
  AfterConfigure => ((ret = [cfg |-> Given, err |-> "nil"]) <=> (Shadowing = NoPath))

\* C15, amended: after a successful configure the written file holds {U, T};
\* the next default load reads the written file, and so returns {U, T}, if and
\* only if no config file exists at a tier of higher priority; with scope local
\* that is always the case; otherwise the load returns the values of the
\* highest-priority existing file, which are {U, T} only when that file holds
\* the same values.
C15_LoadedFileAfterConfigure ==
  AfterConfigure =>
    LET saved == op.after.savedTo IN
    /\ saved = GetSavePath(op.after.flags.scope).path
    /\ files[saved].exists /\ files[saved].data = Marshal(Given)
    /\ (op.found = saved) <=> (Shadowing = NoPath)
    /\ Shadowing = NoPath => ret = [cfg |-> Given, err |-> "nil"]
    /\ op.after.flags.scope = "local" => Shadowing = NoPath
    /\ Shadowing # NoPath =>
         /\ op.found = Shadowing
         /\ ret = [cfg |-> Unmarshal(files[Shadowing].data), err |-> "nil"]
         /\ (ret.cfg = Given) <=> (files[Shadowing].data = Marshal(Given))

\* scope user with a file for another server in the working directory: the
\* load returns the other server's values
C15_Witness ==
  /\ AfterConfigure
  /\ op.after.flags.scope = "user"
  /\ Shadowing = LocalPath(cwd)
  /\ files[Shadowing] = OtherFile
  /\ files[UserPath].data = Marshal(Given)
  /\ ret = [cfg |-> OtherConfig, err |-> "nil"]

====
